---------------------------- MODULE Spec2Model ----------------------------
(***************************************************************************)
(* A model of empress::protection::enable() (src/empress.hpp).             *)
(*                                                                         *)
(* enable() resolves three NT entry points through get_nt_api, creates a   *)
(* job object, assigns the current process to it and writes a process      *)
(* memory limit of 0x1000 into it.  Every statement of enable() is one     *)
(* action; the operating system's answers (the module handle, the result   *)
(* of each symbol lookup, the NTSTATUS of each primitive) are chosen       *)
(* nondeterministically.  The handle table and the job membership of the   *)
(* process are part of the state; `events` records, per call, every OS     *)
(* call and every log line in the order the code makes them.               *)
(***************************************************************************)
EXTENDS Integers, Sequences, FiniteSets

\* ------------------------------------------------------------------ bounds

\* The number of enable() calls made by the host process.
MaxCalls == 2

\* -------------------------------------------------------------- vocabulary

NULL == "nullptr"

\* The null HANDLE (HANDLE job = nullptr); real handle values are positive.
NoHandle == 0

\* The three entry points enable() looks up by name.
ApiNames == {"NtCreateJobObject", "NtAssignProcessToJobObject", "NtSetInformationJobObject"}

\* get_nt_api is a template over the function pointer type; each of the three
\* instantiations owns its function-local static `ntdll`.
PtrType(name) == CASE name = "NtCreateJobObject" -> "NtCreateJobObject_t"
                   [] name = "NtAssignProcessToJobObject" -> "NtAssignProcessToJobObject_t"
                   [] name = "NtSetInformationJobObject" -> "NtSetInformationJobObject_t"

PtrTypes == {PtrType(n) : n \in ApiNames}

\* What GetModuleHandleA("ntdll.dll") can answer.
ModuleHandles == {NULL, "ntdll.dll"}

\* typedef LONG NTSTATUS: a signed 32-bit value.  The values the primitives
\* return here: the two ends of the range, both sides of zero, zero, and an
\* informational status (0x40000000).
MinStatus == -2147483647 - 1
MaxStatus == 2147483647
Statuses == {MinStatus, -1, 0, 1, 1073741824, MaxStatus}

\* #define NtCurrentProcess() ((HANDLE)(LONG_PTR)-1)
NtCurrentProcess == -1

\* enum class log_level
log_level == {"info", "warning", "error"}

VARIABLES
    pc,          \* the statement enable() is at; "idle" outside a call
    calls,       \* enable() calls started so far
    ntdll,       \* get_nt_api's static handle, per instantiation
    moduleLookups, \* GetModuleHandleA calls made since the process started
    fn,          \* the three resolved pointers (locals of enable)
    job,         \* HANDLE job
    status,      \* NTSTATUS status
    limits,      \* JOBOBJECT_EXTENDED_LIMIT_INFORMATION limits
    result,      \* what the last enable() call returned
    handles,     \* the process's open job handles
    nextHandle,  \* the next handle value the kernel hands out
    members,     \* the job objects the process is assigned to
    jobInfo,     \* the limit record written into each job object
    entryHandles,\* the handle table when the current call started
    events       \* the OS calls and log lines of the current call, in order

vars == <<pc, calls, ntdll, moduleLookups, fn, job, status, limits, result, handles,
          nextHandle, members, jobInfo, entryHandles, events>>

kernel == <<handles, nextHandle, members, jobInfo>>
locals == <<fn, job, status, limits>>


\* ------------------------------------------------------- the logging sink

\* logging::log(level, fmt): one line on the console, tagged by severity.
Prefix(level) == CASE level = "info" -> "[INFO] "
                   [] level = "warning" -> "[WARN] "
                   [] level = "error" -> "[ERROR] "

log(level, msg) == [op |-> "log", level |-> level, prefix |-> Prefix(level), msg |-> msg]

\* ------------------------------------------------------------ pure helpers

\* #define NT_SUCCESS(Status) (((NTSTATUS)(Status)) >= 0)
NT_SUCCESS_zero_only(Status) == Status = 0
NT_SUCCESS_positive(Status) == Status > 0
NT_SUCCESS(Status) == Status >= 0

\* GetProcAddress(ntdll, name): fails on a null module handle, and on a name
\* the module does not export.
GetProcAddress(hModule, name, exported) ==
    IF hModule = NULL THEN NULL
    ELSE IF exported THEN "ntdll!" \o name ELSE NULL

\* The presence test of enable():
\* !NtCreateJobObject || !NtAssignProcessToJobObject || !NtSetInformationJobObject
ApiMissing_all(f) == \A n \in ApiNames : f[n] = NULL
ApiMissing(f) == \E n \in ApiNames : f[n] = NULL

\* JOBOBJECT_EXTENDED_LIMIT_INFORMATION limits = {}: every field zero, no
\* limit flag set.
ZeroLimits ==
    [type |-> "JOBOBJECT_EXTENDED_LIMIT_INFORMATION",
     BasicLimitInformation |->
        [PerProcessUserTimeLimit |-> 0, PerJobUserTimeLimit |-> 0,
         LimitFlags |-> {}, MinimumWorkingSetSize |-> 0,
         MaximumWorkingSetSize |-> 0, ActiveProcessLimit |-> 0,
         Affinity |-> 0, PriorityClass |-> 0, SchedulingClass |-> 0],
     IoInfo |->
        [ReadOperationCount |-> 0, WriteOperationCount |-> 0,
         OtherOperationCount |-> 0, ReadTransferCount |-> 0,
         WriteTransferCount |-> 0, OtherTransferCount |-> 0],
     ProcessMemoryLimit |-> 0, JobMemoryLimit |-> 0,
     PeakProcessMemoryUsed |-> 0, PeakJobMemoryUsed |-> 0]

\* limits.ProcessMemoryLimit = 0x1000
MinimalMemoryLimit == 4096

\* The record enable() builds:
\*   limits.ProcessMemoryLimit = 0x1000;
\*   limits.BasicLimitInformation.LimitFlags = JOB_OBJECT_LIMIT_PROCESS_MEMORY;
BuiltLimits_job_memory ==
    [ZeroLimits EXCEPT !.JobMemoryLimit = MinimalMemoryLimit,
                       !.BasicLimitInformation.LimitFlags = {"JOB_OBJECT_LIMIT_JOB_MEMORY"}]
BuiltLimits ==
    [ZeroLimits EXCEPT !.ProcessMemoryLimit = MinimalMemoryLimit,
                       !.BasicLimitInformation.LimitFlags = {"JOB_OBJECT_LIMIT_PROCESS_MEMORY"}]

\* sizeof(x): the byte size of x's type.
sizeof(x) == [bytesOf |-> x.type]

\* ------------------------------------------------------------------- Init

NoLimits == [type |-> "undeclared"]

Init ==
    /\ pc = "idle"
    /\ calls = 0
    /\ ntdll = [T \in PtrTypes |-> "uninit"]
    /\ moduleLookups = 0
    /\ fn = [n \in ApiNames |-> "undeclared"]
    /\ job = NoHandle
    /\ status = 0
    /\ limits = NoLimits
    /\ result = "none"
    /\ handles = {}
    /\ nextHandle = 1
    /\ members = {}
    /\ jobInfo = [j \in {} |-> NoLimits]
    /\ entryHandles = {}
    /\ events = << >>

\* ---------------------------------------------------------------- actions

\* The host calls enable(): a fresh activation, no local declared yet.
Call ==
    /\ pc = "idle"
    /\ calls < MaxCalls
    /\ calls' = calls + 1
    /\ pc' = "resolve_create"
    /\ fn' = [n \in ApiNames |-> "undeclared"]
    /\ job' = NoHandle
    /\ status' = 0
    /\ limits' = NoLimits
    /\ result' = "none"
    /\ entryHandles' = handles
    /\ events' = << >>
    /\ UNCHANGED <<ntdll, moduleLookups, kernel>>

\* get_nt_api<T>(name): the first use of an instantiation initialises its
\* static `ntdll` from GetModuleHandleA("ntdll.dll"); every use then returns
\* GetProcAddress(ntdll, name).
get_nt_api(name) ==
    \E h \in ModuleHandles, exported \in BOOLEAN :
        LET T == PtrType(name)
            first == ntdll[T] = "uninit"
            hModule == IF first THEN h ELSE ntdll[T]
            found == GetProcAddress(hModule, name, exported)
            init == IF first
                    THEN <<[op |-> "GetModuleHandleA", name |-> "ntdll.dll", result |-> hModule]>>
                    ELSE << >>
        IN  /\ ntdll' = [ntdll EXCEPT ![T] = hModule]
            /\ moduleLookups' = IF first THEN moduleLookups + 1 ELSE moduleLookups
            /\ fn' = [fn EXCEPT ![name] = found]
            /\ events' = events \o init \o
                <<[op |-> "GetProcAddress", module |-> hModule, name |-> name, result |-> found]>>

\* const auto NtCreateJobObject = get_nt_api<NtCreateJobObject_t>("NtCreateJobObject");
ResolveCreate ==
    /\ pc = "resolve_create"
    /\ get_nt_api("NtCreateJobObject")
    /\ pc' = "resolve_assign"
    /\ UNCHANGED <<calls, job, status, limits, result, kernel, entryHandles>>

\* const auto NtAssignProcessToJobObject = get_nt_api<...>("NtAssignProcessToJobObject");
ResolveAssign ==
    /\ pc = "resolve_assign"
    /\ get_nt_api("NtAssignProcessToJobObject")
    /\ pc' = "resolve_setinfo"
    /\ UNCHANGED <<calls, job, status, limits, result, kernel, entryHandles>>

\* const auto NtSetInformationJobObject = get_nt_api<...>("NtSetInformationJobObject");
ResolveSetInfo ==
    /\ pc = "resolve_setinfo"
    /\ get_nt_api("NtSetInformationJobObject")
    /\ pc' = "check_apis"
    /\ UNCHANGED <<calls, job, status, limits, result, kernel, entryHandles>>

\* return false / return true: the activation ends.
Return(value) ==
    /\ pc' = "idle"
    /\ result' = value

\* if (!NtCreateJobObject || ...) { log(error, ...); return false; }
ApisFailed_falls_through ==
    /\ pc = "check_apis"
    /\ ApiMissing(fn)
    /\ events' = Append(events, log("error", "Failed to get NT API functions"))
    /\ pc' = "create"
    /\ UNCHANGED <<calls, ntdll, moduleLookups, locals, result, kernel, entryHandles>>
ApisFailed ==
    /\ pc = "check_apis"
    /\ ApiMissing(fn)
    /\ events' = Append(events, log("error", "Failed to get NT API functions"))
    /\ Return("false")
    /\ UNCHANGED <<calls, ntdll, moduleLookups, locals, kernel, entryHandles>>

ApisResolved ==
    /\ pc = "check_apis"
    /\ ~ApiMissing(fn)
    /\ pc' = "create"
    /\ UNCHANGED <<calls, ntdll, moduleLookups, locals, result, kernel, entryHandles, events>>


\* ------------------------------------------------------ the OS primitives

\* The kernel's side of a primitive: it took effect iff its status is not an
\* error or warning status, whatever the caller makes of the status.
KernelDid(s) == s >= 0

\* CloseHandle(h): h leaves the handle table; closing a handle that is not
\* open fails.  The job object lives on while a process is assigned to it.
CloseHandle(h) ==
    /\ handles' = handles \ {h}
    /\ UNCHANGED <<nextHandle, members, jobInfo>>

closed(h) == [op |-> "CloseHandle", handle |-> h, wasOpen |-> h \in handles]

\* HANDLE job = nullptr;
\* NTSTATUS status = NtCreateJobObject(&job, MAXIMUM_ALLOWED, nullptr);
CreateJob_reuses ==
    /\ pc = "create"
    /\ \E s \in Statuses :
        LET fresh == handles = {}
            h == IF ~KernelDid(s) THEN NoHandle
                 ELSE IF fresh THEN nextHandle
                 ELSE CHOOSE x \in handles : TRUE IN
        /\ status' = s
        /\ job' = h
        /\ handles' = IF KernelDid(s) THEN handles \cup {h} ELSE handles
        /\ nextHandle' = IF KernelDid(s) /\ fresh THEN nextHandle + 1 ELSE nextHandle
        /\ jobInfo' = IF KernelDid(s) /\ fresh
                      THEN [j \in DOMAIN jobInfo \cup {h} |->
                               IF j = h THEN NoLimits ELSE jobInfo[j]]
                      ELSE jobInfo
        /\ events' = Append(events,
              [op |-> "NtCreateJobObject", callee |-> fn["NtCreateJobObject"],
               access |-> "MAXIMUM_ALLOWED", attributes |-> NULL,
               status |-> s, handle |-> h])
    /\ pc' = "check_create"
    /\ UNCHANGED <<calls, ntdll, moduleLookups, fn, limits, result, members, entryHandles>>
CreateJob ==
    /\ pc = "create"
    /\ \E s \in Statuses :
        LET h == IF KernelDid(s) THEN nextHandle ELSE NoHandle IN
        /\ status' = s
        /\ job' = h
        /\ handles' = IF KernelDid(s) THEN handles \cup {h} ELSE handles
        /\ nextHandle' = IF KernelDid(s) THEN nextHandle + 1 ELSE nextHandle
        /\ jobInfo' = IF KernelDid(s)
                      THEN [j \in DOMAIN jobInfo \cup {h} |->
                               IF j = h THEN NoLimits ELSE jobInfo[j]]
                      ELSE jobInfo
        /\ events' = Append(events,
              [op |-> "NtCreateJobObject", callee |-> fn["NtCreateJobObject"],
               access |-> "MAXIMUM_ALLOWED", attributes |-> NULL,
               status |-> s, handle |-> h])
    /\ pc' = "check_create"
    /\ UNCHANGED <<calls, ntdll, moduleLookups, fn, limits, result, members, entryHandles>>

\* if (!NT_SUCCESS(status)) { log(error, ...); return false; }
CreateFailed_retries ==
    /\ pc = "check_create"
    /\ ~NT_SUCCESS(status)
    /\ events' = Append(events, log("error", "Failed to create job object"))
    /\ pc' = "create"
    /\ UNCHANGED <<calls, ntdll, moduleLookups, locals, result, kernel, entryHandles>>
CreateFailed_closes ==
    /\ pc = "check_create"
    /\ ~NT_SUCCESS(status)
    /\ CloseHandle(job)
    /\ events' = events \o <<closed(job), log("error", "Failed to create job object")>>
    /\ Return("false")
    /\ UNCHANGED <<calls, ntdll, moduleLookups, locals, entryHandles>>
CreateFailed_falls_through ==
    /\ pc = "check_create"
    /\ ~NT_SUCCESS(status)
    /\ events' = Append(events, log("error", "Failed to create job object"))
    /\ pc' = "assign"
    /\ UNCHANGED <<calls, ntdll, moduleLookups, locals, result, kernel, entryHandles>>
CreateFailed ==
    /\ pc = "check_create"
    /\ ~NT_SUCCESS(status)
    /\ events' = Append(events, log("error", "Failed to create job object"))
    /\ Return("false")
    /\ UNCHANGED <<calls, ntdll, moduleLookups, locals, kernel, entryHandles>>

CreateSucceeded ==
    /\ pc = "check_create"
    /\ NT_SUCCESS(status)
    /\ pc' = "assign"
    /\ UNCHANGED <<calls, ntdll, moduleLookups, locals, result, kernel, entryHandles, events>>

\* status = NtAssignProcessToJobObject(job, NtCurrentProcess());
AssignProcess ==
    /\ pc = "assign"
    /\ \E s \in Statuses :
        /\ status' = s
        /\ members' = IF KernelDid(s) /\ job \in handles THEN members \cup {job} ELSE members
        /\ events' = Append(events,
              [op |-> "NtAssignProcessToJobObject", callee |-> fn["NtAssignProcessToJobObject"],
               handle |-> job, process |-> NtCurrentProcess, status |-> s])
    /\ pc' = "check_assign"
    /\ UNCHANGED <<calls, ntdll, moduleLookups, fn, job, limits, result, handles, nextHandle,
                   jobInfo, entryHandles>>

\* if (!NT_SUCCESS(status)) { CloseHandle(job); log(error, ...); return false; }
AssignFailed_leaks ==
    /\ pc = "check_assign"
    /\ ~NT_SUCCESS(status)
    /\ events' = Append(events, log("error", "Failed to assign process to job"))
    /\ Return("false")
    /\ UNCHANGED <<calls, ntdll, moduleLookups, locals, kernel, entryHandles>>
AssignFailed ==
    /\ pc = "check_assign"
    /\ ~NT_SUCCESS(status)
    /\ CloseHandle(job)
    /\ events' = events \o <<closed(job), log("error", "Failed to assign process to job")>>
    /\ Return("false")
    /\ UNCHANGED <<calls, ntdll, moduleLookups, locals, entryHandles>>

AssignSucceeded ==
    /\ pc = "check_assign"
    /\ NT_SUCCESS(status)
    /\ pc' = "limits"
    /\ UNCHANGED <<calls, ntdll, moduleLookups, locals, result, kernel, entryHandles, events>>

\* JOBOBJECT_EXTENDED_LIMIT_INFORMATION limits = {};
\* limits.ProcessMemoryLimit = 0x1000;
\* limits.BasicLimitInformation.LimitFlags = JOB_OBJECT_LIMIT_PROCESS_MEMORY;
DeclareLimits ==
    /\ pc = "limits"
    /\ limits' = BuiltLimits
    /\ pc' = "setinfo"
    /\ UNCHANGED <<calls, ntdll, moduleLookups, fn, job, status, result, kernel, entryHandles, events>>

\* status = NtSetInformationJobObject(job, JobObjectExtendedLimitInformation,
\*                                    &limits, sizeof(limits));
SetInformation ==
    /\ pc = "setinfo"
    /\ \E s \in Statuses :
        /\ status' = s
        /\ jobInfo' = IF KernelDid(s) /\ job \in DOMAIN jobInfo
                      THEN [jobInfo EXCEPT ![job] = limits] ELSE jobInfo
        /\ events' = Append(events,
              [op |-> "NtSetInformationJobObject", callee |-> fn["NtSetInformationJobObject"],
               handle |-> job, class |-> "JobObjectExtendedLimitInformation",
               record |-> limits, length |-> sizeof(limits), status |-> s])
    /\ pc' = "check_setinfo"
    /\ UNCHANGED <<calls, ntdll, moduleLookups, fn, job, limits, result, handles, nextHandle,
                   members, entryHandles>>

\* if (!NT_SUCCESS(status)) { CloseHandle(job); log(error, ...); return false; }
SetInfoFailed_detaches ==
    /\ pc = "check_setinfo"
    /\ ~NT_SUCCESS(status)
    /\ handles' = handles \ {job}
    /\ members' = members \ {job}
    /\ events' = events \o <<closed(job), log("error", "Failed to set job limits")>>
    /\ Return("false")
    /\ UNCHANGED <<calls, ntdll, moduleLookups, locals, nextHandle, jobInfo, entryHandles>>
SetInfoFailed_warns ==
    /\ pc = "check_setinfo"
    /\ ~NT_SUCCESS(status)
    /\ CloseHandle(job)
    /\ events' = events \o <<closed(job), log("warning", "Failed to set job limits")>>
    /\ Return("false")
    /\ UNCHANGED <<calls, ntdll, moduleLookups, locals, entryHandles>>
SetInfoFailed ==
    /\ pc = "check_setinfo"
    /\ ~NT_SUCCESS(status)
    /\ CloseHandle(job)
    /\ events' = events \o <<closed(job), log("error", "Failed to set job limits")>>
    /\ Return("false")
    /\ UNCHANGED <<calls, ntdll, moduleLookups, locals, entryHandles>>

\* logging::log(info, "Memory protection active"); return true;
\* The job handle is not closed on this path.
Succeed_logs_twice ==
    /\ pc = "check_setinfo"
    /\ NT_SUCCESS(status)
    /\ events' = events \o <<log("info", "Memory protection active"),
                             log("info", "Memory protection active")>>
    /\ Return("true")
    /\ UNCHANGED <<calls, ntdll, moduleLookups, locals, kernel, entryHandles>>
Succeed ==
    /\ pc = "check_setinfo"
    /\ NT_SUCCESS(status)
    /\ events' = Append(events, log("info", "Memory protection active"))
    /\ Return("true")
    /\ UNCHANGED <<calls, ntdll, moduleLookups, locals, kernel, entryHandles>>

\* ---------------------------------------------------------- specification

Next ==
    \/ Call
    \/ ResolveCreate
    \/ ResolveAssign
    \/ ResolveSetInfo
    \/ ApisFailed
    \/ ApisResolved
    \/ CreateJob
    \/ CreateFailed
    \/ CreateSucceeded
    \/ AssignProcess
    \/ AssignFailed
    \/ AssignSucceeded
    \/ DeclareLimits
    \/ SetInformation
    \/ SetInfoFailed
    \/ Succeed

Spec == Init /\ [][Next]_vars

\* The steps of enable() itself: everything but the host's decision to call.
EnableStep ==
    \/ ResolveCreate \/ ResolveAssign \/ ResolveSetInfo
    \/ ApisFailed \/ ApisResolved
    \/ CreateJob \/ CreateFailed \/ CreateSucceeded
    \/ AssignProcess \/ AssignFailed \/ AssignSucceeded
    \/ DeclareLimits
    \/ SetInformation \/ SetInfoFailed \/ Succeed

\* enable() is straight-line synchronous code: once called, its next
\* statement runs, every OS call being a blocking call that returns.
FairSpec == Spec /\ WF_vars(EnableStep)

\* ------------------------------------------------------------- well-formedness

TypeOK ==
    /\ pc \in {"idle", "resolve_create", "resolve_assign", "resolve_setinfo",
               "check_apis", "create", "check_create", "assign", "check_assign",
               "limits", "setinfo", "check_setinfo"}
    /\ calls \in 0..MaxCalls
    /\ \A T \in PtrTypes : ntdll[T] \in ModuleHandles \cup {"uninit"}
    /\ moduleLookups = Cardinality({T \in PtrTypes : ntdll[T] # "uninit"})
    /\ status \in Statuses
    /\ job \in 0..(nextHandle - 1)
    /\ result \in {"none", "true", "false"}
    /\ handles \subseteq 1..(nextHandle - 1)
    /\ members \subseteq DOMAIN jobInfo


\* ------------------------------------------------ reading the call's history

\* An enable() call has returned (and no later call has started).
Returned == pc = "idle" /\ calls > 0

Indices(op) == {i \in 1..Len(events) : events[i].op = op}
Invoked(op) == Indices(op) # {}
Primitives == {i \in 1..Len(events) : events[i].op \in ApiNames}
Lookups == Indices("GetProcAddress")
Logs == SelectSeq(events, LAMBDA e : e.op = "log")

\* Some lookup of this call yielded not-found.
LookupFailed == \E i \in Lookups : events[i].result = NULL
\* All three lookups of this call were made and resolved.
AllResolved ==
    \A n \in ApiNames :
        \E i \in Lookups : events[i].name = n /\ events[i].result # NULL

\* Primitive op was invoked in this call and returned a negative / a
\* non-negative status.
Negative(op) == \E i \in Indices(op) : events[i].status < 0
NonNegative(op) == \E i \in Indices(op) : events[i].status >= 0

\* The handles this call closed, and how often it closed h.
Closes(h) == Cardinality({i \in Indices("CloseHandle") : events[i].handle = h})

\* ------------------------------------------------------------------ claims

\* C1: enable() returns true if and only if all three primitives resolved and
\* container creation, process attachment and limit setting each returned a
\* non-negative status; in every other case it returns false.
C1_ReturnsTrueIffAllSucceeded ==
    Returned =>
        /\ result \in {"true", "false"}
        /\ result = "true" <=>
              /\ AllResolved
              /\ NonNegative("NtCreateJobObject")
              /\ NonNegative("NtAssignProcessToJobObject")
              /\ NonNegative("NtSetInformationJobObject")

\* A call returned true after an informational (positive) creation status.
C1_Witness ==
    /\ Returned
    /\ result = "true"
    /\ AllResolved
    /\ \E i \in Indices("NtCreateJobObject") : events[i].status > 0

\* C2: at the moment enable() returns (true or false) no container handle
\* created by that call is still open.
C2_NoHandleOpenAtReturn ==
    Returned =>
        \A i \in Indices("NtCreateJobObject") :
            events[i].status >= 0 => events[i].handle \notin handles

\* C3: when creation succeeded and attachment or limit setting returned a
\* negative status, the handle is closed exactly once in that call and the
\* handle table is back at its size from before the call.
C3_FailureClosesHandleOnce ==
    (/\ Returned
     /\ NonNegative("NtCreateJobObject")
     /\ Negative("NtAssignProcessToJobObject") \/ Negative("NtSetInformationJobObject"))
    =>
        /\ \A i \in Indices("NtCreateJobObject") : Closes(events[i].handle) = 1
        /\ Cardinality(Indices("CloseHandle")) = 1
        /\ \A i \in Indices("CloseHandle") : events[i].wasOpen
        /\ Cardinality(handles) = Cardinality(entryHandles)
        /\ handles = entryHandles

\* A call failed at limit setting, after the process was attached, and closed
\* its handle.
C3_Witness ==
    /\ Returned
    /\ NonNegative("NtAssignProcessToJobObject")
    /\ Negative("NtSetInformationJobObject")
    /\ Cardinality(Indices("CloseHandle")) = 1
    /\ job \notin handles

\* C4: if at least one of the three lookups yields not-found, then during
\* that call no primitive is invoked, no container is created, no limit is
\* written, no handle is closed, and enable() returns false.
C4_LookupFailureInvokesNothing ==
    LookupFailed =>
        /\ Primitives = {}
        /\ ~Invoked("CloseHandle")
        /\ handles = entryHandles
        /\ job = NoHandle
        /\ pc \notin {"create", "check_create", "assign", "check_assign",
                      "limits", "setinfo", "check_setinfo"}
        /\ Returned => result = "false"

\* A call returned after exactly one lookup (the last) failed.
C4_Witness ==
    /\ Returned
    /\ result = "false"
    /\ Cardinality({i \in Lookups : events[i].result = NULL}) = 1
    /\ fn["NtSetInformationJobObject"] = NULL

\* The message of the first step that failed in this call.
FirstFailure ==
    IF LookupFailed THEN "Failed to get NT API functions"
    ELSE IF Negative("NtCreateJobObject") THEN "Failed to create job object"
    ELSE IF Negative("NtAssignProcessToJobObject") THEN "Failed to assign process to job"
    ELSE IF Negative("NtSetInformationJobObject") THEN "Failed to set job limits"
    ELSE "no step failed"

\* C5: every enable() call that returns false emits exactly one log line, at
\* severity error, and no info line; its message names the first step that
\* failed.
C5_FailureLogsOneError ==
    (Returned /\ result = "false") =>
        /\ Len(Logs) = 1
        /\ Logs[1].level = "error"
        /\ Logs[1].prefix = "[ERROR] "
        /\ Logs[1].msg = FirstFailure
        /\ Logs[1].msg \in {"Failed to get NT API functions",
                            "Failed to create job object",
                            "Failed to assign process to job",
                            "Failed to set job limits"}

\* A call failed at limit setting and logged that.
C5_Witness ==
    /\ Returned
    /\ result = "false"
    /\ Negative("NtSetInformationJobObject")
    /\ Len(Logs) = 1
    /\ Logs[1].msg = "Failed to set job limits"

\* C6: every enable() call that returns true emits exactly one log line, at
\* severity info, "Memory protection active", and no error line; the line
\* comes after the limit-setting primitive returned a non-negative status.
C6_SuccessLogsOneInfo ==
    (Returned /\ result = "true") =>
        /\ Len(Logs) = 1
        /\ Logs[1].level = "info"
        /\ Logs[1].prefix = "[INFO] "
        /\ Logs[1].msg = "Memory protection active"
        /\ \A i \in Indices("log") :
              \E k \in Indices("NtSetInformationJobObject") :
                  k < i /\ events[k].status >= 0

\* A call returned true and its last event is the info line.
C6_Witness ==
    /\ Returned
    /\ result = "true"
    /\ Len(events) > 0
    /\ events[Len(events)].op = "log"
    /\ events[Len(events)].level = "info"

\* C7: whenever the information-setting primitive is invoked, the record has
\* ProcessMemoryLimit 4096, the process-memory flag as its only limit flag and
\* every other field zero; it is written with the extended-limit-information
\* class and the record's exact size.  The record is the same on every call.
C7_LimitRecord ==
    \A i \in Indices("NtSetInformationJobObject") :
        LET r == events[i].record
            basic == r.BasicLimitInformation
        IN  /\ r.type = "JOBOBJECT_EXTENDED_LIMIT_INFORMATION"
            /\ r.ProcessMemoryLimit = 4096
            /\ basic.LimitFlags = {"JOB_OBJECT_LIMIT_PROCESS_MEMORY"}
            /\ \A f \in DOMAIN basic \ {"LimitFlags"} : basic[f] = 0
            /\ \A f \in DOMAIN r.IoInfo : r.IoInfo[f] = 0
            /\ r.JobMemoryLimit = 0
            /\ r.PeakProcessMemoryUsed = 0
            /\ r.PeakJobMemoryUsed = 0
            /\ events[i].class = "JobObjectExtendedLimitInformation"
            /\ events[i].length = [bytesOf |-> "JOBOBJECT_EXTENDED_LIMIT_INFORMATION"]
            /\ \A j \in DOMAIN jobInfo :
                  jobInfo[j] # NoLimits => jobInfo[j] = r

\* The second call writes the record into a second job object while the first
\* job object still holds the record of the first call.
C7_Witness ==
    /\ calls = 2
    /\ Invoked("NtSetInformationJobObject")
    /\ \E j \in DOMAIN jobInfo : j # job /\ jobInfo[j] # NoLimits
    /\ job \in DOMAIN jobInfo /\ jobInfo[job] # NoLimits

\* The primitive whose status each check tests, the position a passed check
\* leads to, and the message of a failed one.
CheckedAt == {"check_create", "check_assign", "check_setinfo"}
PassedTo(p) == CASE p = "check_create" -> "assign"
                 [] p = "check_assign" -> "limits"
                 [] p = "check_setinfo" -> "idle"
FailureOf(p) == CASE p = "check_create" -> "Failed to create job object"
                  [] p = "check_assign" -> "Failed to assign process to job"
                  [] p = "check_setinfo" -> "Failed to set job limits"

\* What a status check does in one step, by the sign of the status.
CheckStep ==
    pc \in CheckedAt =>
        /\ status \in MinStatus..MaxStatus
        /\ status >= 0 =>
              /\ pc' = PassedTo(pc)
              /\ pc = "check_setinfo" => result' = "true"
              /\ pc # "check_setinfo" => result' = "none"
        /\ status < 0 =>
              /\ pc' = "idle"
              /\ result' = "false"
              /\ events'[Len(events')] = log("error", FailureOf(pc))

\* C8: the success test on each primitive's status is exactly status >= 0 on
\* a signed 32-bit value: zero and every positive status proceed to the next
\* step, every negative status fails at that step, for creation, attachment
\* and limit setting alike.
C8_SuccessBoundary == [][CheckStep]_vars

\* An informational status let the call go past attachment, and the extreme
\* negative status stopped it at limit setting.
C8_Witness ==
    /\ Returned
    /\ \E i \in Indices("NtAssignProcessToJobObject") : events[i].status = 1073741824
    /\ \E i \in Indices("NtSetInformationJobObject") : events[i].status = MinStatus
    /\ result = "false"

\* C9: a lookup made with an unavailable library handle fails; enable() then
\* takes the resolution-failure path: it returns false, logs "Failed to get NT
\* API functions", and invokes none of the three primitives.
C9_NoLibraryNoProtection ==
    /\ \A i \in Lookups : events[i].module = NULL => events[i].result = NULL
    /\ (\E i \in Lookups : events[i].module = NULL) =>
          /\ Primitives = {}
          /\ Returned =>
                /\ result = "false"
                /\ Logs = <<log("error", "Failed to get NT API functions")>>

\* A call returned after all three lookups ran without a library handle.
C9_Witness ==
    /\ Returned
    /\ \A T \in PtrTypes : ntdll[T] = NULL
    /\ Cardinality({i \in Lookups : events[i].module = NULL}) = 3
    /\ result = "false"

\* The primitives this call invoked, in the order it invoked them.
PrimitiveOrder ==
    LET prim == SelectSeq(events, LAMBDA e : e.op \in ApiNames)
    IN  [i \in 1..Len(prim) |-> prim[i].op]

\* C10: the primitives are invoked in the order create-container,
\* assign-process, set-information, each at most once; assign-process only
\* after create-container returned a non-negative status, set-information only
\* after assign-process did; once a step fails no further primitive is invoked.
C10_FixedOrderNoRetry ==
    /\ PrimitiveOrder \in
          {<< >>,
           <<"NtCreateJobObject">>,
           <<"NtCreateJobObject", "NtAssignProcessToJobObject">>,
           <<"NtCreateJobObject", "NtAssignProcessToJobObject",
             "NtSetInformationJobObject">>}
    /\ \A i \in Indices("NtAssignProcessToJobObject") :
          \E k \in Indices("NtCreateJobObject") : k < i /\ events[k].status >= 0
    /\ \A i \in Indices("NtSetInformationJobObject") :
          \E k \in Indices("NtAssignProcessToJobObject") : k < i /\ events[k].status >= 0
    /\ \A i \in Primitives :
          events[i].status < 0 => \A k \in Primitives : k <= i

\* A call invoked all three primitives and returned.
C10_Witness ==
    /\ Returned
    /\ Len(PrimitiveOrder) = 3
    /\ Negative("NtSetInformationJobObject")


\* C11: CloseHandle is only ever invoked on a container handle that the same
\* call created and that is still open: never after a failed resolution or a
\* failed creation, never before creation, never twice on the same handle.
C11_CloseOnlyOwnOpenHandle ==
    /\ \A i \in Indices("CloseHandle") :
          /\ events[i].wasOpen
          /\ events[i].handle # NoHandle
          /\ events[i].handle \notin entryHandles
          /\ events[i].handle \notin handles
          /\ Closes(events[i].handle) = 1
          /\ \E k \in Indices("NtCreateJobObject") :
                /\ k < i
                /\ events[k].status >= 0
                /\ events[k].handle = events[i].handle
    /\ Cardinality(Indices("CloseHandle")) <= 1
    /\ (LookupFailed \/ Negative("NtCreateJobObject")) => ~Invoked("CloseHandle")

\* The second call closed its own handle while the handle the first call
\* left open stayed open.
C11_Witness ==
    /\ Returned
    /\ calls = 2
    /\ entryHandles # {}
    /\ Invoked("CloseHandle")
    /\ handles = entryHandles


\* After a return from a failed limit setting the process is still a member of
\* the job object this call attached it to, though the handle is closed.
StillAttached ==
    (Returned /\ Negative("NtSetInformationJobObject")) =>
        /\ result = "false"
        /\ job \in members
        /\ job \notin handles

\* No step undoes an attachment or a written limit, and a step that closes a
\* handle leaves memberships and limits as they were.
NoRollbackStep ==
    /\ members \subseteq members'
    /\ \A j \in DOMAIN jobInfo :
          /\ j \in DOMAIN jobInfo'
          /\ jobInfo[j] # NoLimits => jobInfo'[j] = jobInfo[j]
    /\ handles' # handles /\ handles' \subseteq handles =>
          /\ members' = members
          /\ jobInfo' = jobInfo
    /\ (pc = "check_setinfo" /\ status < 0) =>
          /\ pc' = "idle"
          /\ result' = "false"
          /\ job \in members'

\* C12: enable() performs no rollback: when limit setting fails after the
\* process was attached, the process remains a member of the container after
\* enable() returns false; closing the local handle leaves membership and any
\* written limit unchanged; no step detaches or undoes.
C12_NoRollback == []StillAttached /\ [][NoRollbackStep]_vars

\* A call returned false from a failed limit setting with the process still
\* attached to the job whose handle it closed.
C12_Witness ==
    /\ Returned
    /\ result = "false"
    /\ Negative("NtSetInformationJobObject")
    /\ Invoked("CloseHandle")
    /\ job \in members
    /\ job \notin handles


\* C13: across any number of enable() calls the library handle is located
\* once, on first use, and that value serves every later symbol lookup of
\* every primitive.
C13_LibraryLocatedOnce == moduleLookups <= 1


\* The positions of enable() in program order.
Rank(p) == CASE p = "resolve_create" -> 1
             [] p = "resolve_assign" -> 2
             [] p = "resolve_setinfo" -> 3
             [] p = "check_apis" -> 4
             [] p = "create" -> 5
             [] p = "check_create" -> 6
             [] p = "assign" -> 7
             [] p = "check_assign" -> 8
             [] p = "limits" -> 9
             [] p = "setinfo" -> 10
             [] p = "check_setinfo" -> 11
             [] p = "idle" -> 12

\* What one call does at most, and that it has an outcome exactly when it has
\* returned.
CallBudget ==
    /\ Cardinality(Lookups) <= 3
    /\ Cardinality(Primitives) <= 3
    /\ Cardinality(Indices("CloseHandle")) <= 1
    /\ Len(Logs) <= 1
    /\ Returned => result \in {"true", "false"} /\ Len(Logs) = 1
    /\ pc # "idle" => result = "none"

\* Inside a call every step moves forward in program order.
Forward == pc # "idle" => Rank(pc') > Rank(pc)

\* C14: every enable() call terminates: from its start it reaches exactly one
\* of the two outcomes after at most three symbol lookups, three primitive
\* invocations, one handle close and one log line, visiting no position
\* twice, given that each OS call returns.
C14_EveryCallTerminates ==
    /\ []CallBudget
    /\ [][Forward]_vars
    /\ (pc # "idle") ~> Returned

\* A call that used the whole budget: three lookups, three primitives, one
\* close, one log line.
C14_Witness ==
    /\ Returned
    /\ Cardinality(Lookups) = 3
    /\ Cardinality(Primitives) = 3
    /\ Cardinality(Indices("CloseHandle")) = 1
    /\ Len(Logs) = 1


\* The call is at or past the presence test.
PastLookups == Returned \/ (pc # "idle" /\ Rank(pc) >= 4)

\* C15: the three symbol lookups are made afresh in every enable() call, all
\* three before the presence test; a later call repeats them and, when they
\* resolve, creates a new container; no resolved pointer and no container
\* handle is carried from one call to the next.
C15_FreshPerCall ==
    /\ pc = "resolve_create" =>
          /\ \A n \in ApiNames : fn[n] = "undeclared"
          /\ job = NoHandle
          /\ Lookups = {}
    /\ PastLookups =>
          /\ \A n \in ApiNames :
                /\ Cardinality({i \in Lookups : events[i].name = n}) = 1
                /\ \A i \in Lookups : events[i].name = n => fn[n] = events[i].result
          /\ \A i \in Lookups :
                \A k \in Primitives \cup Indices("log") \cup Indices("CloseHandle") : i < k
    /\ \A k \in Indices("NtCreateJobObject") :
          events[k].status >= 0 =>
              /\ events[k].handle = job
              /\ job \notin entryHandles
              /\ pc = "check_create" => job \notin members /\ jobInfo[job] = NoLimits

\* The second call, its three lookups repeated, has created a container of
\* its own while the handle of the first call's container is still open.
C15_Witness ==
    /\ calls = 2
    /\ pc = "check_create"
    /\ status >= 0
    /\ Cardinality(Lookups) = 3
    /\ entryHandles # {}
    /\ job \notin entryHandles
    /\ entryHandles \subseteq members

=============================================================================
